---- MODULE Spec2Model ----
(***************************************************************************)
(* databutter: the adaptive performance governor (PerformanceMonitor) and  *)
(* the animation engines it clamps.                                        *)
(*                                                                         *)
(* Time is in milliseconds.  Fractional animation parameters are held in   *)
(* hundredths (0.1 is 10, 0.3 is 30, a jiggle intensity of 2 is 200).      *)
(***************************************************************************)
EXTENDS Integers, Sequences, FiniteSets, TLC

VARIABLES
    monitor,    \* window.performanceMonitor: the PerformanceMonitor object
    engine,     \* window.animationEngine (kind "none" when not registered)
    statusBar,  \* content of the #statusBar element
    now,        \* the clock read by performance.now() and Date.now()
    pending,    \* tick callbacks queued with requestAnimationFrame
    frameDt,    \* interval of the frames of the current sampling window, 0 at its start
    stops,      \* number of stop() calls so far
    hidden,     \* number of times the tab was hidden so far
    events,     \* what the last step did: calls made, in order
    feedLog,    \* scripted classifier run: one entry per fed sample
    builder,    \* a GPUOnlyAnimationBuilder
    timeline,   \* the tweens scheduled on the builder's timeline, in order
    submitted,  \* number of animation requests made of the builder so far
    validation, \* a caller of validateParameters: its object and what it got back
    filtering,  \* a caller of filterGPUProperties: the map given and what came back
    call,       \* the last safeAnimate call with its arguments, and what it scheduled
    buttery,    \* the ButteryPerformanceMonitor, the engine it adapts and its last step
    player      \* an animation engine being played: isPlaying, its timelines, its chart

monitorVars == <<monitor, engine, statusBar, now, pending, frameDt, stops, hidden,
                 events, feedLog>>
builderVars == <<builder, timeline, submitted>>

otherVars == <<filtering, call, buttery, player>>

vars == <<monitorVars, builderVars, validation, otherVars>>

----------------------------------------------------------------------------
(* Bounds of the model *)

MaxTime == 2100        \* visible running time explored, ms
MaxCallbacks == 2      \* subscribers registered at most
MaxStops == 1          \* stop() calls at most
MaxHidden == 1         \* times the tab is hidden at most

FrameDeltas == {18, 22, 23}          \* steady frame intervals: 56, 45 and 43 fps
HiddenGaps == {60000}                \* a hidden tab suspends frame callbacks this long
IdleDeltas == {1000}                 \* time step while no tick callback is queued
SubscriberKinds == {"ok", "throws"}  \* a subscriber returns or throws

\* the scripted classifier run of the end-to-end scenario
Scenario == <<58, 58, 58, 44, 44, 30, 52, 58>>
ScenarioFps == {Scenario[i] : i \in DOMAIN Scenario}

----------------------------------------------------------------------------
(* Program constants *)

WindowMs == 1000       \* sampling window
HistoryMs == 60000     \* history retention
LowBelow == 45         \* fps below this is the low tier
MediumBelow == 55      \* fps below this (and not low) is the medium tier
InitialFps == 60

Levels == {"high", "medium", "low"}

\* getConstraints: the per-tier constraint bundles
ConstraintTable ==
    [high   |-> [maxSegments |-> 4, maxJiggle |-> 200, maxVariation |-> 30,
                 allowSquash |-> TRUE, allowSecondaryAction |-> TRUE],
     medium |-> [maxSegments |-> 3, maxJiggle |-> 100, maxVariation |-> 20,
                 allowSquash |-> TRUE, allowSecondaryAction |-> TRUE],
     low    |-> [maxSegments |-> 2, maxJiggle |-> 0, maxVariation |-> 10,
                 allowSquash |-> FALSE, allowSecondaryAction |-> FALSE]]

GetConstraints(level) == ConstraintTable[level]

----------------------------------------------------------------------------
(* Animation engines: the animationParams each variant is constructed with *)

FullParams ==
    [timing |-> [baseDuration |-> 1500, staggerDelay |-> 300],
     squashAndStretch |-> [enabled |-> TRUE, squashAmount |-> 90,
                           stretchAmount |-> 110],
     secondaryAction |-> [enabled |-> TRUE, jiggleIntensity |-> 100,
                          maxJiggles |-> 3]]

ClippingParams ==
    [animationSpeed |-> 100, drawingDuration |-> 200,
     leadingEdgeBulge |-> 15, curveSmoothing |-> 8]

ProgressiveParams == [animationSpeed |-> 100, drawingDuration |-> 200]

OrganicParams == [animationSpeed |-> 100, drawingDuration |-> 200]

EngineKinds == {"full", "clipping", "progressive", "organic"}

NoEngine == [kind |-> "none"]

NewEngine(kind) ==
    [kind |-> kind,
     animationParams |->
        CASE kind = "full" -> FullParams
          [] kind = "clipping" -> ClippingParams
          [] kind = "progressive" -> ProgressiveParams
          [] OTHER -> OrganicParams]

\* a settings file the user may import
ImportedParameters ==
    { [timing |-> [maxSegments |-> 4, organicVariation |-> 40],
       secondaryAction |-> [jiggleIntensity |-> 200],
       squashAndStretch |-> [enabled |-> TRUE]] }

\* JavaScript property access on records
Has(obj, key) == key \in DOMAIN obj

\* obj[key] = value, creating the property when it is missing
SetField(obj, key, value) ==
    [k \in DOMAIN obj \cup {key} |-> IF k = key THEN value ELSE obj[k]]

\* engine.deepMerge(target, source): source's fields override, group by group
DeepMerge(target, source) ==
    [g \in DOMAIN target \cup DOMAIN source |->
        IF g \notin DOMAIN source THEN target[g]
        ELSE IF g \notin DOMAIN target THEN source[g]
        ELSE [f \in DOMAIN target[g] \cup DOMAIN source[g] |->
                 IF f \in DOMAIN source[g] THEN source[g][f] ELSE target[g][f]]]

----------------------------------------------------------------------------
(* PerformanceMonitor.  The methods work on a bundle                       *)
(*   [mon, eng, bar, ev, thrown, rearm]                                    *)
(* of the monitor object, window.animationEngine, the status bar, the      *)
(* calls made so far in this step, whether an exception is propagating,    *)
(* and whether the tick callback queued itself again.                      *)

NewMonitor(t) ==
    [fps |-> InitialFps, frameCount |-> 0, lastTime |-> t,
     performanceLevel |-> "high", monitoring |-> TRUE,
     history |-> <<>>, callbacks |-> <<>>]

Bundle(mon, eng, bar) ==
    [mon |-> mon, eng |-> eng, bar |-> bar, ev |-> <<>>,
     thrown |-> FALSE, rearm |-> FALSE]

Emit(s, e) == [s EXCEPT !.ev = Append(@, e)]

\* an exception leaves the running method
Throw(s) == [Emit(s, [op |-> "uncaught"]) EXCEPT !.thrown = TRUE]

\* Math.round(n / d) for n >= 0, d > 0
Round(n, d) == (2 * n + d) \div (2 * d)

\* Variant of UpdateHistory that keeps a sample of exactly the cutoff time
UpdateHistoryKeepingCutoff(s, t) ==
    LET pushed == Append(s.mon.history,
                         [fps |-> s.mon.fps, timestamp |-> t,
                          performanceLevel |-> s.mon.performanceLevel])
        cutoff == t - HistoryMs
        keep(entry) == entry.timestamp >= cutoff
        kept == SelectSeq(pushed, keep)
    IN  Emit([s EXCEPT !.mon.history = kept],
             [op |-> "history", evicted |-> Len(pushed) - Len(kept)])

UpdateHistory(s, t) ==
    LET pushed == Append(s.mon.history,
                         [fps |-> s.mon.fps, timestamp |-> t,
                          performanceLevel |-> s.mon.performanceLevel])
        cutoff == t - HistoryMs
        keep(entry) == entry.timestamp > cutoff
        kept == SelectSeq(pushed, keep)
    IN  Emit([s EXCEPT !.mon.history = kept],
             [op |-> "history", evicted |-> Len(pushed) - Len(kept)])

RECURSIVE SumFps(_, _)
SumFps(history, n) == IF n = 0 THEN 0 ELSE SumFps(history, n - 1) + history[n].fps

\* Variant of GetMetrics whose average is cut off instead of rounded
GetMetricsTruncating(mon) ==
    LET n == Len(mon.history)
        all == {mon.history[i].fps : i \in 1..n}
    IN  [mon |-> mon,
         returned |->
            [currentFPS |-> mon.fps,
             performanceLevel |-> mon.performanceLevel,
             averageFPS |-> IF n > 0 THEN SumFps(mon.history, n) \div n ELSE mon.fps,
             minFPS |-> IF n > 0 THEN CHOOSE f \in all : \A g \in all : f <= g ELSE mon.fps,
             maxFPS |-> IF n > 0 THEN CHOOSE f \in all : \A g \in all : f >= g ELSE mon.fps,
             dataPoints |-> n]]

\* getMetrics: mon is the monitor after the call
GetMetrics(mon) ==
    LET n == Len(mon.history)
        all == {mon.history[i].fps : i \in 1..n}
    IN  [mon |-> mon,
         returned |->
            [currentFPS |-> mon.fps,
             performanceLevel |-> mon.performanceLevel,
             averageFPS |-> IF n > 0 THEN Round(SumFps(mon.history, n), n) ELSE mon.fps,
             minFPS |-> IF n > 0 THEN CHOOSE f \in all : \A g \in all : f <= g ELSE mon.fps,
             maxFPS |-> IF n > 0 THEN CHOOSE f \in all : \A g \in all : f >= g ELSE mon.fps,
             dataPoints |-> n]]

ShowPerformanceWarning(s) ==
    [Emit(s, [op |-> "warning", fps |-> s.mon.fps]) EXCEPT !.bar = "low-warning"]

\* engine.animationParams.<group>.<field> = value
Assign(params, group, field, value) ==
    [params EXCEPT ![group] = SetField(@, field, value)]

WithParams(s, params) == [s EXCEPT !.eng.animationParams = params]

\* "Force safe parameters": four assignments, each a TypeError when its
\* parameter group is missing, then the warning
ForceSafeParameters(s) ==
    LET p0 == s.eng.animationParams IN
    IF ~Has(p0, "timing") THEN Throw(s)
    ELSE LET p1 == Assign(p0, "timing", "maxSegments", 2) IN
    IF ~Has(p1, "secondaryAction") THEN Throw(WithParams(s, p1))
    ELSE LET p2 == Assign(p1, "secondaryAction", "jiggleIntensity", 0)
             p3 == Assign(p2, "timing", "organicVariation", 10) IN
    IF ~Has(p3, "squashAndStretch") THEN Throw(WithParams(s, p3))
    ELSE LET p4 == Assign(p3, "squashAndStretch", "enabled", FALSE) IN
         ShowPerformanceWarning(WithParams(s, p4))

\* Variant of EnforceConstraints that writes the tier's bundle back into a
\* full engine on Medium and High
EnforceConstraintsRestoring(s) ==
    IF s.eng.kind = "none" THEN s
    ELSE IF s.mon.performanceLevel = "low" THEN ForceSafeParameters(s)
    ELSE IF s.eng.kind # "full" THEN s
    ELSE LET c == GetConstraints(s.mon.performanceLevel)
             p1 == Assign(s.eng.animationParams, "timing", "maxSegments", c.maxSegments)
             p2 == Assign(p1, "secondaryAction", "jiggleIntensity", c.maxJiggle)
             p3 == Assign(p2, "timing", "organicVariation", c.maxVariation)
             p4 == Assign(p3, "squashAndStretch", "enabled", c.allowSquash)
         IN  WithParams(s, p4)

EnforceConstraints(s) ==
    IF s.mon.performanceLevel # "low" THEN s
    ELSE IF s.eng.kind = "none" THEN s
    ELSE ForceSafeParameters(s)

Classify(fps) ==
    IF fps < LowBelow THEN "low"
    ELSE IF fps < MediumBelow THEN "medium"
    ELSE "high"

\* Variant of AdjustPerformanceLevel with hysteresis: Low is left only for
\* a sample of MediumBelow or more
AdjustPerformanceLevelSticky(s) ==
    LET previousLevel == s.mon.performanceLevel
        level == IF previousLevel = "low" /\ s.mon.fps < MediumBelow
                 THEN "low" ELSE Classify(s.mon.fps)
        s1 == Emit([s EXCEPT !.mon.performanceLevel = level],
                   [op |-> "classify", fps |-> s.mon.fps,
                    prev |-> previousLevel, level |-> level])
    IN  IF previousLevel # level
        THEN LET s2 == EnforceConstraints(Emit(s1, [op |-> "enforce"]))
             IN  IF s2.thrown THEN s2 ELSE Emit(s2, [op |-> "enforced"])
        ELSE s1

\* Variant of AdjustPerformanceLevel that enforces on every window
AdjustPerformanceLevelEveryWindow(s) ==
    LET previousLevel == s.mon.performanceLevel
        level == Classify(s.mon.fps)
        s1 == Emit([s EXCEPT !.mon.performanceLevel = level],
                   [op |-> "classify", fps |-> s.mon.fps,
                    prev |-> previousLevel, level |-> level])
        s2 == EnforceConstraints(Emit(s1, [op |-> "enforce"]))
    IN  IF s2.thrown THEN s2 ELSE Emit(s2, [op |-> "enforced"])

AdjustPerformanceLevel(s) ==
    LET previousLevel == s.mon.performanceLevel
        level == Classify(s.mon.fps)
        s1 == Emit([s EXCEPT !.mon.performanceLevel = level],
                   [op |-> "classify", fps |-> s.mon.fps,
                    prev |-> previousLevel, level |-> level])
    IN  IF previousLevel # level
        THEN LET s2 == EnforceConstraints(Emit(s1, [op |-> "enforce"]))
             IN  IF s2.thrown THEN s2 ELSE Emit(s2, [op |-> "enforced"])
        ELSE s1

\* callbacks.forEach from position i on: each call in its own try/catch
RECURSIVE NotifyFrom(_, _)
NotifyFrom(s, i) ==
    IF i > Len(s.mon.callbacks) THEN s
    ELSE LET called == Emit(s, [op |-> "call", index |-> i,
                                fps |-> s.mon.fps,
                                level |-> s.mon.performanceLevel,
                                bundle |-> GetConstraints(s.mon.performanceLevel),
                                seen |-> s.eng])
             after == IF s.mon.callbacks[i] = "throws"
                      THEN Emit(called, [op |-> "caught", index |-> i])
                      ELSE called
         IN  NotifyFrom(after, i + 1)

\* Variant of NotifyCallbacks without the try/catch: the first throwing
\* subscriber ends the forEach
NotifyCallbacksUnguarded(s) ==
    LET n == Len(s.mon.callbacks)
        throwers == {i \in 1..n : s.mon.callbacks[i] = "throws"}
        last == IF throwers = {} THEN n
                ELSE CHOOSE i \in throwers : \A j \in throwers : i <= j
        calls == [i \in 1..last |->
                     [op |-> "call", index |-> i, fps |-> s.mon.fps,
                      level |-> s.mon.performanceLevel,
                      bundle |-> GetConstraints(s.mon.performanceLevel),
                      seen |-> s.eng]]
        called == [s EXCEPT !.ev = @ \o calls]
    IN  IF throwers = {} THEN called ELSE Throw(called)

NotifyCallbacks(s) == NotifyFrom(s, 1)

\* Variant of CloseWindow that notifies the subscribers before it classifies
CloseWindowNotifyingFirst(s, t) ==
    LET s1 == [s EXCEPT !.mon.fps = Round(s.mon.frameCount * 1000, t - s.mon.lastTime),
                        !.mon.frameCount = 0,
                        !.mon.lastTime = t]
        s2 == UpdateHistory(Emit(s1, [op |-> "window"]), t)
        s3 == NotifyCallbacks(s2)
    IN  AdjustPerformanceLevel(s3)

\* the body of the tick's window-close branch (updateUI writes display
\* elements only)
CloseWindow(s, t) ==
    LET s1 == [s EXCEPT !.mon.fps = Round(s.mon.frameCount * 1000, t - s.mon.lastTime),
                        !.mon.frameCount = 0,
                        !.mon.lastTime = t]
        s2 == UpdateHistory(Emit(s1, [op |-> "window"]), t)
        s3 == AdjustPerformanceLevel(s2)
    IN  IF s3.thrown THEN s3 ELSE NotifyCallbacks(s3)

\* Variant of Tick that does not look at the monitoring flag
TickWhileStopped(s, t) ==
    LET s1 == [s EXCEPT !.mon.frameCount = @ + 1] IN
    IF t - s1.mon.lastTime >= WindowMs
    THEN LET s2 == CloseWindow(s1, t) IN [s2 EXCEPT !.rearm = ~s2.thrown]
    ELSE [s1 EXCEPT !.rearm = TRUE]

\* one run of the tick callback at time t
Tick(s, t) ==
    IF ~s.mon.monitoring THEN [s EXCEPT !.rearm = FALSE]
    ELSE LET s1 == [s EXCEPT !.mon.frameCount = @ + 1] IN
         IF t - s1.mon.lastTime >= WindowMs
         THEN LET s2 == CloseWindow(s1, t) IN [s2 EXCEPT !.rearm = ~s2.thrown]
         ELSE [s1 EXCEPT !.rearm = TRUE]

\* the n tick callbacks queued for one frame run one after another; acc counts
\* those that queued themselves again
RECURSIVE RunTicks(_, _, _, _)
RECURSIVE AfterTick(_, _, _, _)
RunTicks(s, n, t, acc) ==
    IF n = 0 THEN [state |-> s, queued |-> acc]
    ELSE AfterTick(Tick([s EXCEPT !.thrown = FALSE], t), n, t, acc)
AfterTick(r, n, t, acc) ==
    RunTicks(r, n - 1, t, acc + (IF r.rearm THEN 1 ELSE 0))

----------------------------------------------------------------------------
(* PerformanceConstraints.validateParameters.  A parameter object is a     *)
(* record of its groups, a group a record of the fields it has.            *)

MaxSegmentsPerYear == 4      \* MAX_SEGMENTS_PER_YEAR
MaxTimingVariation == 50     \* MAX_TIMING_VARIATION, 0.5

Min(a, b) == IF a <= b THEN a ELSE b
Max(a, b) == IF a >= b THEN a ELSE b

\* group.field || default: the default replaces a missing field and a 0
OrDefault(group, field, default) ==
    IF Has(group, field) /\ group[field] # 0 THEN group[field] ELSE default

\* Variant of ValidateTiming that leaves maxSegments as requested
ValidateTimingUnclamped(timing) ==
    LET t1 == SetField(timing, "maxSegments", OrDefault(timing, "maxSegments", 4))
    IN  SetField(t1, "organicVariation",
                 Min(OrDefault(t1, "organicVariation", 30), MaxTimingVariation))

\* Variant of ValidateTiming that sets an out-of-range maxSegments to 0
ValidateTimingResetting(timing) ==
    LET requested == OrDefault(timing, "maxSegments", 4)
        t1 == SetField(timing, "maxSegments",
                       IF requested > MaxSegmentsPerYear THEN 0 ELSE requested)
    IN  SetField(t1, "organicVariation",
                 Min(OrDefault(t1, "organicVariation", 30), MaxTimingVariation))

ValidateTiming(timing) ==
    LET t1 == SetField(timing, "maxSegments",
                       Min(OrDefault(timing, "maxSegments", 4), MaxSegmentsPerYear))
    IN  SetField(t1, "organicVariation",
                 Min(OrDefault(t1, "organicVariation", 30), MaxTimingVariation))

ValidateSecondaryAction(secondaryAction) ==
    LET s1 == SetField(secondaryAction, "jiggleIntensity",
                       Min(OrDefault(secondaryAction, "jiggleIntensity", 200), 300))
    IN  SetField(s1, "maxJiggles", Min(OrDefault(s1, "maxJiggles", 3), 5))

ValidateSquashAndStretch(squashAndStretch) ==
    LET q1 == SetField(squashAndStretch, "squashAmount",
                       Max(OrDefault(squashAndStretch, "squashAmount", 90), 70))
    IN  SetField(q1, "stretchAmount", Min(OrDefault(q1, "stretchAmount", 110), 130))

\* the groups are rewritten in the object passed in, and that object is
\* returned: params is the caller's object after the call
ValidateParameters(params) ==
    LET p1 == IF Has(params, "timing")
              THEN [params EXCEPT !.timing = ValidateTiming(@)] ELSE params
        p2 == IF Has(p1, "secondaryAction")
              THEN [p1 EXCEPT !.secondaryAction = ValidateSecondaryAction(@)] ELSE p1
        p3 == IF Has(p2, "squashAndStretch")
              THEN [p2 EXCEPT !.squashAndStretch = ValidateSquashAndStretch(@)] ELSE p2
    IN  [params |-> p3, returned |-> p3]

\* requested values: a field is missing (<<>>) or has one of a few values
\* below, at and above its limit
Optional(values) == {<<>>} \cup {<<v>> : v \in values}

SegmentValues == {0, 2, 4, 10}
VariationValues == {0, 10, 50, 80}
JiggleValues == {0, 100, 300, 500}
MaxJigglesValues == {0, 3, 8}
SquashValues == {0, 50, 90}
StretchValues == {0, 110, 200}

MakeGroup(name1, option1, name2, option2) ==
    [k \in (IF option1 = <<>> THEN {} ELSE {name1})
             \cup (IF option2 = <<>> THEN {} ELSE {name2}) |->
        IF k = name1 THEN option1[1] ELSE option2[1]]

TimingGroups ==
    {MakeGroup("maxSegments", a, "organicVariation", b) :
        a \in Optional(SegmentValues), b \in Optional(VariationValues)}
SecondaryActionGroups ==
    {MakeGroup("jiggleIntensity", a, "maxJiggles", b) :
        a \in Optional(JiggleValues), b \in Optional(MaxJigglesValues)}
SquashAndStretchGroups ==
    {MakeGroup("squashAmount", a, "stretchAmount", b) :
        a \in Optional(SquashValues), b \in Optional(StretchValues)}

MakeParams(timing, secondaryAction, squashAndStretch) ==
    [g \in (IF timing = <<>> THEN {} ELSE {"timing"})
             \cup (IF secondaryAction = <<>> THEN {} ELSE {"secondaryAction"})
             \cup (IF squashAndStretch = <<>> THEN {} ELSE {"squashAndStretch"}) |->
        CASE g = "timing" -> timing[1]
          [] g = "secondaryAction" -> secondaryAction[1]
          [] OTHER -> squashAndStretch[1]]

RequestedParams ==
    {MakeParams(t, s, q) : t \in Optional(TimingGroups),
                           s \in Optional(SecondaryActionGroups),
                           q \in Optional(SquashAndStretchGroups)}

\* the parameters of the full engine after the Low-tier enforcement
EnforcedParams ==
    ForceSafeParameters(Bundle(NewMonitor(0), NewEngine("full"), "ready")).eng.animationParams

MaxValidations == 2      \* validateParameters calls on one object at most

\* a caller with its parameter object: what it requested, what the object
\* holds now, and what the calls returned so far
NewValidation(params) == [request |-> params, params |-> params, results |-> <<>>]

----------------------------------------------------------------------------
(* GPUOnlyAnimationBuilder.  Its methods work on a bundle                  *)
(*   [builder, timeline, submitted]                                        *)
(* Requests are numbered in the order they are made; a tween on the        *)
(* timeline carries the number of the request it was scheduled for.        *)

MaxConcurrentAnimations == 8     \* MAX_CONCURRENT_ANIMATIONS
MaxBatchSize == 4                \* maxBatchSize

MaxRequests == 11                \* animation requests made at most
BatchLengths == {0, 2, 5}        \* lengths of the lists given to batchAnimate

NewBuilder == [animationCount |-> 0]

\* Variant of SafeAnimate without the cap check
SafeAnimateUncapped(b) ==
    [b EXCEPT !.builder.animationCount = @ + 1,
              !.timeline = Append(@, [request |-> b.submitted + 1,
                                      state |-> "running"]),
              !.submitted = @ + 1]

\* safeAnimate: over the cap the request is skipped, otherwise the count
\* goes up and a tween is put on the timeline
SafeAnimate(b) ==
    IF b.builder.animationCount >= MaxConcurrentAnimations
    THEN [b EXCEPT !.submitted = @ + 1]
    ELSE [b EXCEPT !.builder.animationCount = @ + 1,
                   !.timeline = Append(@, [request |-> b.submitted + 1,
                                           state |-> "running"]),
                   !.submitted = @ + 1]

\* Variant of OnComplete that releases two slots
OnCompleteTwice(b) == [b EXCEPT !.animationCount = @ - 2]

\* the onComplete callback safeAnimate gives its tween
OnComplete(b) == [b EXCEPT !.animationCount = @ - 1]

\* batch.forEach(anim => this.safeAnimate(...)) over a batch of k requests
RECURSIVE ForEachSafeAnimate(_, _)
ForEachSafeAnimate(b, k) ==
    IF k = 0 THEN b ELSE ForEachSafeAnimate(SafeAnimate(b), k - 1)

\* the loop of batchAnimate from position i of a list of n requests
RECURSIVE BatchFrom(_, _, _)
BatchFrom(b, n, i) ==
    IF i >= n THEN b
    ELSE BatchFrom(ForEachSafeAnimate(b, Min(MaxBatchSize, n - i)), n, i + MaxBatchSize)

\* Variant of BatchAnimate that handles the first chunk only
BatchAnimateFirstChunk(b, n) == ForEachSafeAnimate(b, Min(MaxBatchSize, n))

BatchAnimate(b, n) == BatchFrom(b, n, 0)

----------------------------------------------------------------------------
(* PerformanceConstraints.filterGPUProperties.  A property map is a        *)
(* function from its keys to their values; the value of 'attr' is a bag,   *)
(* a function from attribute names to values.                              *)

GPU_ONLY_PROPERTIES ==
    {"opacity", "transform", "x", "y", "rotation", "scale",
     "scaleX", "scaleY", "rotationX", "rotationY", "rotationZ"}

safeAttrs == {"width", "height", "d", "transform", "opacity"}

\* Variant of IsGPUSafeAttribute that asks for one safe attribute only
IsGPUSafeAttributeSome(attrProps) ==
    \E attr \in DOMAIN attrProps : attr \in safeAttrs

\* Object.keys(attrProps).every(attr => safeAttrs.includes(attr))
IsGPUSafeAttribute(attrProps) ==
    \A attr \in DOMAIN attrProps : attr \in safeAttrs

\* Variant of FilterGPUProperties without the blocking branch
FilterGPUPropertiesKeepingAll(properties) ==
    [safe |-> properties, warned |-> {}]

\* the keys are taken one by one: a key of the GPU list, a safe 'attr' bag
\* and duration, ease, delay are copied; any other key is warned about
FilterGPUProperties(properties) ==
    LET copied(key) ==
            \/ key \in GPU_ONLY_PROPERTIES
            \/ (key = "attr" /\ IsGPUSafeAttribute(properties[key]))
            \/ key = "duration" \/ key = "ease" \/ key = "delay"
    IN  [safe |-> [key \in {k \in DOMAIN properties : copied(k)} |-> properties[key]],
         warned |-> {k \in DOMAIN properties : ~copied(k)}]

\* the object with the keys that were supplied
MakeMap(options) ==
    [k \in {key \in DOMAIN options : options[key] # <<>>} |-> options[k][1]]

AttrKeys == {"width", "d", "opacity", "x", "fill"}
AttrBags == {[k \in sub |-> 5] : sub \in SUBSET AttrKeys}

PropertyMaps ==
    {MakeMap(o) : o \in [opacity : Optional({0, 50}),
                         x : Optional({0, 50}),
                         width : Optional({50}),
                         backgroundColor : Optional({"red"}),
                         duration : Optional({1, 200}),
                         ease : Optional({"none"}),
                         delay : Optional({10}),
                         attr : Optional(AttrBags)]}

\* a caller with its property map, before the call
NewFiltering(properties) ==
    [properties |-> properties, called |-> FALSE, returned |-> <<>>, warned |-> {}]

----------------------------------------------------------------------------
(* safeAnimate with its arguments.  Durations are in hundredths of a       *)
(* second.                                                                 *)

MinAnimationDuration == 5        \* MIN_ANIMATION_DURATION, 0.05 s
DefaultDuration == 100           \* duration = 1
DefaultEase == "power2.out"

\* the duration parameter: its default when the argument is left out
DurationArgument(option) == IF option = <<>> THEN DefaultDuration ELSE option[1]

SafeDuration(duration) == Max(duration, MinAnimationDuration)

\* Variant of TweenVars that spreads the filtered properties last
TweenVarsSpreadLast(gpuProperties, safeDuration, ease) ==
    [k \in DOMAIN gpuProperties \cup {"duration", "ease"} |->
        IF k \in DOMAIN gpuProperties THEN gpuProperties[k]
        ELSE IF k = "duration" THEN safeDuration ELSE ease]

\* { ...gpuProperties, duration: safeDuration, ease: ease }
TweenVars(gpuProperties, safeDuration, ease) ==
    [k \in DOMAIN gpuProperties \cup {"duration", "ease"} |->
        IF k = "duration" THEN safeDuration
        ELSE IF k = "ease" THEN ease
        ELSE gpuProperties[k]]

\* safeAnimate(target, properties, duration, ease): the builder after the
\* call, and what the call did, in order
SafeAnimateWith(b, properties, option, ease) ==
    LET gpuProperties == FilterGPUProperties(properties).safe
        after == SafeAnimate(b)
        scheduled == Len(after.timeline) > Len(b.timeline)
        safeDuration == SafeDuration(DurationArgument(option))
    IN  [bundle |-> after,
         call |-> [properties |-> properties,
                   duration |-> option,
                   countBefore |-> b.builder.animationCount,
                   steps |-> IF scheduled
                             THEN <<"filter", "cap", "floor", "count", "to">>
                             ELSE <<"filter", "cap", "warn">>,
                   tween |-> IF scheduled
                             THEN <<TweenVars(gpuProperties, safeDuration, ease)>>
                             ELSE <<>>]]

DurationValues == {0, 1, 5, 30}
TweenProperties ==
    {MakeMap(o) : o \in [opacity : Optional({50}),
                         width : Optional({50}),
                         duration : Optional({1, 200})]}

----------------------------------------------------------------------------
(* ButteryPerformanceMonitor, the lightweight monitor.  Its state s holds  *)
(* the monitor (mon), window.animationEngine (eng), the names of the       *)
(* engine parameters that hold NaN (nan), whether the warning is shown     *)
(* and what the last step did (ev).                                        *)

ButteryLowBelow == 30
ButteryMediumBelow == 50
DrawingDurationCap == 150        \* 1.5
LeadingEdgeBulgeCap == 10        \* 0.1

NewButteryMonitor ==
    [fps |-> InitialFps, frameCount |-> 0, lastTime |-> 0,
     performanceLevel |-> "high", monitoring |-> TRUE]

NewButtery ==
    [mon |-> NewButteryMonitor, eng |-> NoEngine, nan |-> {},
     warning |-> FALSE, ev |-> <<>>, windows |-> 0]

\* params[field] = Math.min(params[field], cap): NaN when the field is
\* missing or holds NaN
MathMinInto(s, field, cap) ==
    IF Has(s.eng.animationParams, field) /\ field \notin s.nan
    THEN [s EXCEPT !.eng.animationParams[field] = Min(@, cap)]
    ELSE [s EXCEPT !.nan = @ \cup {field}]

ButteryShowPerformanceWarning(s) == [Emit(s, [op |-> "warning"]) EXCEPT !.warning = TRUE]

\* Variant of AdaptForPerformance that puts the engine's defaults back when
\* the tier is not Low
AdaptForPerformanceRestoring(s) ==
    IF s.eng.kind = "none" THEN s
    ELSE IF s.mon.performanceLevel = "low"
    THEN ButteryShowPerformanceWarning(
             MathMinInto(MathMinInto(s, "drawingDuration", DrawingDurationCap),
                         "leadingEdgeBulge", LeadingEdgeBulgeCap))
    ELSE [s EXCEPT !.eng = NewEngine(s.eng.kind), !.nan = {}]

AdaptForPerformance(s) ==
    IF s.mon.performanceLevel = "low" /\ s.eng.kind # "none"
    THEN ButteryShowPerformanceWarning(
             IF Has(s.eng, "animationParams")
             THEN MathMinInto(MathMinInto(s, "drawingDuration", DrawingDurationCap),
                              "leadingEdgeBulge", LeadingEdgeBulgeCap)
             ELSE s)
    ELSE s

UpdatePerformanceLevel(s) ==
    LET previousLevel == s.mon.performanceLevel
        level == IF s.mon.fps < ButteryLowBelow THEN "low"
                 ELSE IF s.mon.fps < ButteryMediumBelow THEN "medium"
                 ELSE "high"
        s1 == [s EXCEPT !.mon.performanceLevel = level]
    IN  IF previousLevel # level
        THEN AdaptForPerformance(Emit(s1, [op |-> "adapt"]))
        ELSE s1

\* updateUI: the warning is hidden when the tier is High
ButteryUpdateUI(s) ==
    IF s.mon.performanceLevel = "high" THEN [s EXCEPT !.warning = FALSE] ELSE s

\* the tick callback that closes the window at time t; no subscriber is
\* registered with this monitor
ButteryCloseWindow(s, t) ==
    LET s1 == [s EXCEPT !.mon.fps = Round(s.mon.frameCount * 1000, t - s.mon.lastTime),
                        !.mon.frameCount = 0,
                        !.mon.lastTime = t,
                        !.windows = @ + 1]
    IN  ButteryUpdateUI(UpdatePerformanceLevel(Emit(s1, [op |-> "window"])))

\* the frames of one sampling window, dt ms apart: each tick counts its
\* frame, and the one that finds 1000 ms gone closes the window
ButteryWindowFrames(s, dt) ==
    LET k == (WindowMs + dt - 1) \div dt
    IN  ButteryCloseWindow([s EXCEPT !.mon.frameCount = @ + k, !.ev = <<>>],
                           s.mon.lastTime + k * dt)

MaxButteryWindows == 4
ButteryDeltas == {16, 20, 21, 33, 34, 40}    \* 63, 50, 48, 30, 29 and 25 fps

\* the engines the page may register, the line-drawing one with its
\* parameters at their defaults or changed by the user
ButteryEngines ==
    {NewEngine(kind) : kind \in EngineKinds}
    \cup {[NewEngine("clipping") EXCEPT !.animationParams.drawingDuration = d,
                                        !.animationParams.leadingEdgeBulge = e] :
             d \in {100, 200}, e \in {5, 15}}

----------------------------------------------------------------------------
(* The animation engines' play, reset and timeline.  An engine e holds     *)
(* isPlaying, the main timelines it created (this.timeline is the last),   *)
(* and, for the organic-flow engine, the length of currentDataSlice, what  *)
(* the path shows and the jelloSettle timers not yet fired, in firing      *)
(* order.                                                                  *)

DataLength == 2      \* this.data.length

\* what a main timeline runs, in order, before its onComplete
TimelineSteps(kind) ==
    IF kind = "organic"
    THEN [i \in 1..DataLength |-> "addDataSegment"]
         \o <<"jelloSettle", "microLife", "returnToAccurateData">>
    ELSE <<"draw">>

JelloTimers == <<"overshoot", "clunk", "bounce", "lock", "returnToAccurateData">>

NewPlayer(kind) ==
    [kind |-> kind, isPlaying |-> FALSE, timelines |-> <<>>,
     currentDataSlice |-> 0, path |-> "initial", timers |-> <<>>,
     afterReset |-> FALSE, last |-> [op |-> "new"]]

KillTimeline(e) ==
    IF e.timelines = <<>> THEN e
    ELSE [e EXCEPT !.timelines[Len(e.timelines)].state =
                       IF @ = "live" THEN "killed" ELSE @]

\* play() of the line-drawing engines, playOrganicFlow(), and what
\* playSelectedYears does once past its own checks
Play(e) ==
    IF e.isPlaying THEN e
    ELSE LET e1 == KillTimeline([e EXCEPT !.isPlaying = TRUE, !.afterReset = FALSE])
         IN  [e1 EXCEPT !.timelines = Append(@, [state |-> "live", position |-> 0])]

\* playSelectedYears(years): the full engine returns for no years; the
\* clipping engine has no such method (the call is a TypeError); the other
\* two play whatever the years
PlaySelectedYears(e, years) ==
    CASE e.kind = "full" ->
             IF e.isPlaying THEN e
             ELSE IF Len(years) = 0 THEN e
             ELSE Play(e)
      [] e.kind = "clipping" -> e
      [] OTHER -> Play(e)

ReturnToAccurateData(e) ==
    [e EXCEPT !.path = "full", !.currentDataSlice = DataLength]

\* the next callback of timeline i runs; after the last one, onComplete
AdvanceTimeline(e, i) ==
    LET steps == TimelineSteps(e.kind)
        n == e.timelines[i].position + 1
        step == steps[n]
        e1 == [e EXCEPT !.timelines[i].position = n]
        e2 == CASE step = "addDataSegment" ->
                       [e1 EXCEPT !.currentDataSlice = n, !.path = "slice"]
                [] step = "jelloSettle" -> [e1 EXCEPT !.timers = @ \o JelloTimers]
                [] step = "returnToAccurateData" -> ReturnToAccurateData(e1)
                [] OTHER -> e1
    IN  IF n = Len(steps)
        THEN [e2 EXCEPT !.timelines[i].state = "completed", !.isPlaying = FALSE]
        ELSE e2

\* the earliest jelloSettle timer fires
FireTimer(e) ==
    LET e1 == [e EXCEPT !.timers = Tail(@)]
    IN  IF Head(e.timers) = "returnToAccurateData"
        THEN ReturnToAccurateData(e1)
        ELSE [e1 EXCEPT !.path = "morphed"]

\* reset(): the timeline is killed; the organic engine empties its slice
\* and clears the path
ResetEngine(e) ==
    LET e1 == KillTimeline(e)
        e2 == IF e.kind = "organic"
              THEN [e1 EXCEPT !.currentDataSlice = 0, !.path = "empty"]
              ELSE e1
    IN  [e2 EXCEPT !.isPlaying = FALSE, !.afterReset = TRUE]

MaxPlays == 2        \* main timelines created at most
YearLists == {<<>>, <<1, 2, 3>>}

----------------------------------------------------------------------------
(* Operations *)

visible == now - hidden * 60000

\* nothing was filtered and safeAnimate was not called yet
InitOther ==
    /\ filtering = NewFiltering(<<>>)
    /\ call = <<>>
    /\ buttery = NewButtery
    /\ player = NewPlayer("full")

Init ==
    /\ monitor = NewMonitor(0)
    /\ engine = NoEngine
    /\ statusBar = "ready"
    /\ now = 0
    /\ pending = 1
    /\ frameDt = 0
    /\ stops = 0
    /\ hidden = 0
    /\ events = <<>>
    /\ feedLog = <<>>
    /\ builder = NewBuilder
    /\ timeline = <<>>
    /\ submitted = 0
    /\ validation = NewValidation(<<>>)
    /\ InitOther

\* the host renders a frame at time t: every queued tick callback runs
RenderFrame(s, n, t) == RunTicks([s EXCEPT !.ev = <<>>], n, t, 0)

\* k frames in each of which the n queued tick callbacks run without closing
\* the window: each run counts its frame and queues itself again
SteadyFrames(s, n, k) == [s EXCEPT !.mon.frameCount = @ + k * n]

\* frames dt ms apart still needed after time t for lastTime to be WindowMs back
FramesToClose(s, t, dt) ==
    LET left == WindowMs - (t - s.mon.lastTime)
    IN  IF left <= dt THEN 1 ELSE (left + dt - 1) \div dt

\* the state the rendering r leaves at time t
Rendered(r, t) ==
    /\ now' = t
    /\ monitor' = r.state.mon
    /\ engine' = r.state.eng
    /\ statusBar' = r.state.bar
    /\ events' = r.state.ev
    /\ pending' = r.queued

\* one frame, dt ms after the last one: the first frame of a sampling window,
\* or a frame that finds the monitor stopped
Frame(dt) ==
    /\ pending > 0
    /\ monitor.frameCount = 0 \/ ~monitor.monitoring
    /\ monitor.frameCount = 0 \/ dt = frameDt
    /\ visible + dt <= MaxTime
    /\ Rendered(RenderFrame(Bundle(monitor, engine, statusBar), pending, now + dt), now + dt)
    /\ frameDt' = IF monitor'.frameCount = 0 THEN 0 ELSE dt
    /\ UNCHANGED <<builderVars, validation, otherVars, stops, hidden, feedLog>>

\* the rest of the sampling window: steady frames every dt ms up to the one
\* whose tick closes the window
Frames(dt) ==
    /\ pending > 0
    /\ monitor.monitoring
    /\ monitor.frameCount = 0 \/ dt = frameDt
    /\ LET k == FramesToClose(Bundle(monitor, engine, statusBar), now, dt)
           t == now + k * dt
       IN  /\ visible + k * dt <= MaxTime
           /\ Rendered(RenderFrame(SteadyFrames(Bundle(monitor, engine, statusBar),
                                                 pending, k - 1),
                                    pending, t), t)
    /\ frameDt' = IF monitor'.frameCount = 0 THEN 0 ELSE dt
    /\ UNCHANGED <<builderVars, validation, otherVars, stops, hidden, feedLog>>

\* the tab is hidden, frame callbacks are suspended, and the next frame comes
\* after the gap
HiddenFrame(gap) ==
    /\ pending > 0
    /\ hidden < MaxHidden
    /\ Rendered(RenderFrame(Bundle(monitor, engine, statusBar), pending, now + gap), now + gap)
    /\ hidden' = hidden + 1
    /\ frameDt' = IF monitor'.frameCount = 0 THEN 0 ELSE frameDt
    /\ UNCHANGED <<builderVars, validation, otherVars, stops, feedLog>>

\* time passes while no tick callback is queued
Idle(dt) ==
    /\ pending = 0
    /\ visible + dt <= MaxTime
    /\ now' = now + dt
    /\ events' = <<>>
    /\ UNCHANGED <<builderVars, validation, otherVars, monitor, engine, statusBar, pending, frameDt, stops, hidden, feedLog>>

Stop ==
    /\ stops < MaxStops
    /\ monitor' = [monitor EXCEPT !.monitoring = FALSE]
    /\ stops' = stops + 1
    /\ events' = <<>>
    /\ UNCHANGED <<builderVars, validation, otherVars, engine, statusBar, now, pending, frameDt, hidden, feedLog>>

Start ==
    /\ monitor' = [monitor EXCEPT !.monitoring = TRUE]
    /\ pending' = IF monitor.monitoring THEN pending ELSE pending + 1
    /\ events' = <<>>
    /\ UNCHANGED <<builderVars, validation, otherVars, engine, statusBar, now, frameDt, stops, hidden, feedLog>>

\* The page's own operations are taken between two sampling windows: they
\* touch nothing a frame inside a window reads, so taking them later in the
\* window leads to the same states.
BetweenWindows == monitor.frameCount = 0

OnPerformanceChange(callback) ==
    /\ BetweenWindows
    /\ Len(monitor.callbacks) < MaxCallbacks
    /\ monitor' = [monitor EXCEPT !.callbacks = Append(@, callback)]
    /\ events' = <<>>
    /\ UNCHANGED <<builderVars, validation, otherVars, engine, statusBar, now, pending, frameDt, stops, hidden, feedLog>>

\* initializeAnimationEngine: window.animationEngine = new ButteryAnimationEngine(...)
InitializeAnimationEngine(kind) ==
    /\ BetweenWindows
    /\ engine.kind = "none"
    /\ engine' = NewEngine(kind)
    /\ events' = <<>>
    /\ UNCHANGED <<builderVars, validation, otherVars, monitor, statusBar, now, pending, frameDt, stops, hidden, feedLog>>

\* importSettings: the parameters of a settings file are merged in
ImportSettings(parameters) ==
    /\ BetweenWindows
    /\ engine.kind = "full"
    /\ engine' = [engine EXCEPT !.animationParams = DeepMerge(@, parameters)]
    /\ events' = <<>>
    /\ UNCHANGED <<builderVars, validation, otherVars, monitor, statusBar, now, pending, frameDt, stops, hidden, feedLog>>

\* the running monitor with its subscribers and the page's engine
Next ==
    \/ \E dt \in FrameDeltas : Frame(dt)
    \/ \E dt \in FrameDeltas : Frames(dt)
    \/ \E gap \in HiddenGaps : HiddenFrame(gap)
    \/ \E dt \in IdleDeltas : Idle(dt)
    \/ \E callback \in SubscriberKinds : OnPerformanceChange(callback)
    \/ \E kind \in EngineKinds : InitializeAnimationEngine(kind)
    \/ \E parameters \in ImportedParameters : ImportSettings(parameters)

Spec == Init /\ [][Next]_vars

\* stop() and start() on a monitor with well-behaved subscribers and the
\* full engine
LifecycleSubscribers == {"ok"}
LifecycleEngines == {"full"}

NextLifecycle ==
    \/ \E dt \in FrameDeltas : Frame(dt)
    \/ \E dt \in FrameDeltas : Frames(dt)
    \/ \E dt \in IdleDeltas : Idle(dt)
    \/ Stop
    \/ Start
    \/ \E callback \in LifecycleSubscribers : OnPerformanceChange(callback)
    \/ \E kind \in LifecycleEngines : InitializeAnimationEngine(kind)

SpecLifecycle == Init /\ [][NextLifecycle]_vars

\* updateDebugInfo: the debug panel shows getMetrics()
UpdateDebugInfo ==
    /\ monitor' = GetMetrics(monitor).mon
    /\ events' = <<[op |-> "metrics", result |-> GetMetrics(monitor).returned]>>
    /\ UNCHANGED <<builderVars, validation, otherVars, engine, statusBar, now, pending, frameDt,
                   stops, hidden, feedLog>>

\* the monitor and the debug panel, the tab hidden now and then
NextMetrics ==
    \/ \E dt \in FrameDeltas : Frame(dt)
    \/ \E dt \in FrameDeltas : Frames(dt)
    \/ \E gap \in HiddenGaps : HiddenFrame(gap)
    \/ UpdateDebugInfo

SpecMetrics == Init /\ [][NextMetrics]_vars

\* a caller of validateParameters with any of the requested parameter
\* objects; the object it gets back is the object it passed
InitValidate ==
    /\ monitor = NewMonitor(0)
    /\ engine = NoEngine
    /\ statusBar = "ready"
    /\ now = 0
    /\ pending = 1
    /\ frameDt = 0
    /\ stops = 0
    /\ hidden = 0
    /\ events = <<>>
    /\ feedLog = <<>>
    /\ builder = NewBuilder
    /\ timeline = <<>>
    /\ submitted = 0
    /\ validation \in {NewValidation(params) : params \in RequestedParams \cup {EnforcedParams}}
    /\ InitOther

Validate ==
    /\ Len(validation.results) < MaxValidations
    /\ validation' = [validation EXCEPT
                         !.params = ValidateParameters(validation.params).params,
                         !.results = Append(@, ValidateParameters(validation.params).returned)]
    /\ UNCHANGED <<monitorVars, builderVars, otherVars>>

NextValidate == Validate

SpecValidate == InitValidate /\ [][NextValidate]_vars

----------------------------------------------------------------------------
(* filterGPUProperties applied to any of the property maps                 *)

\* the page as loaded, nothing else going on
InitRest ==
    /\ monitor = NewMonitor(0)
    /\ engine = NoEngine
    /\ statusBar = "ready"
    /\ now = 0
    /\ pending = 1
    /\ frameDt = 0
    /\ stops = 0
    /\ hidden = 0
    /\ events = <<>>
    /\ feedLog = <<>>
    /\ builder = NewBuilder
    /\ timeline = <<>>
    /\ submitted = 0
    /\ validation = NewValidation(<<>>)

InitFilter ==
    /\ InitRest
    /\ filtering \in {NewFiltering(properties) : properties \in PropertyMaps}
    /\ call = <<>>
    /\ buttery = NewButtery
    /\ player = NewPlayer("full")

Filter ==
    /\ ~filtering.called
    /\ filtering' = [filtering EXCEPT
                        !.called = TRUE,
                        !.returned = <<FilterGPUProperties(filtering.properties).safe>>,
                        !.warned = FilterGPUProperties(filtering.properties).warned]
    /\ UNCHANGED <<monitorVars, builderVars, validation, call, buttery, player>>

NextFilter == Filter

SpecFilter == InitFilter /\ [][NextFilter]_vars

----------------------------------------------------------------------------
(* The classifier driven by a script: fps samples are fed one per window   *)
(* into adjustPerformanceLevel                                             *)

InitFeed ==
    /\ monitor = NewMonitor(0)
    /\ engine \in {NoEngine} \cup {NewEngine(kind) : kind \in EngineKinds}
    /\ statusBar = "ready"
    /\ now = 0
    /\ pending = 0
    /\ frameDt = 0
    /\ stops = 0
    /\ hidden = 0
    /\ events = <<>>
    /\ feedLog = <<>>
    /\ builder = NewBuilder
    /\ timeline = <<>>
    /\ submitted = 0
    /\ validation = NewValidation(<<>>)
    /\ InitOther

Fed(s, sample) ==
    /\ monitor' = s.mon
    /\ engine' = s.eng
    /\ statusBar' = s.bar
    /\ events' = s.ev
    /\ feedLog' = Append(feedLog,
                         [fps |-> sample,
                          tier |-> s.mon.performanceLevel,
                          enforced |-> \E i \in DOMAIN s.ev : s.ev[i].op = "enforce"])

Feed(sample) ==
    /\ Len(feedLog) < Len(Scenario)
    /\ Fed(AdjustPerformanceLevel(
               Bundle([monitor EXCEPT !.fps = sample], engine, statusBar)), sample)
    /\ UNCHANGED <<builderVars, validation, otherVars, now, pending, frameDt, stops, hidden>>

NextFeed == \E sample \in ScenarioFps : Feed(sample)

SpecFeed == InitFeed /\ [][NextFeed]_vars

----------------------------------------------------------------------------
(* The builder driven by requests, tween completions and timeline.kill()   *)

BuilderNow == [builder |-> builder, timeline |-> timeline, submitted |-> submitted]

BuilderBecomes(b) ==
    /\ builder' = b.builder
    /\ timeline' = b.timeline
    /\ submitted' = b.submitted

SafeAnimateRequest ==
    /\ submitted < MaxRequests
    /\ BuilderBecomes(SafeAnimate(BuilderNow))
    /\ UNCHANGED <<monitorVars, validation, otherVars>>

BatchAnimateRequest(n) ==
    /\ submitted + n <= MaxRequests
    /\ BuilderBecomes(BatchAnimate(BuilderNow, n))
    /\ UNCHANGED <<monitorVars, validation, otherVars>>

\* a tween reaches its end: its onComplete runs
TweenCompletes(i) ==
    /\ timeline[i].state = "running"
    /\ timeline' = [timeline EXCEPT ![i].state = "completed"]
    /\ builder' = OnComplete(builder)
    /\ UNCHANGED <<monitorVars, validation, otherVars, submitted>>

\* reset(): timeline.kill() ends the running tweens; no onComplete runs
TimelineKill ==
    /\ \E i \in DOMAIN timeline : timeline[i].state = "running"
    /\ timeline' = [i \in DOMAIN timeline |->
                       IF timeline[i].state = "running"
                       THEN [timeline[i] EXCEPT !.state = "killed"]
                       ELSE timeline[i]]
    /\ UNCHANGED <<monitorVars, validation, otherVars, builder, submitted>>

NextBuilder ==
    \/ SafeAnimateRequest
    \/ \E n \in BatchLengths : BatchAnimateRequest(n)
    \/ \E i \in DOMAIN timeline : TweenCompletes(i)
    \/ TimelineKill

SpecBuilder == Init /\ [][NextBuilder]_vars

----------------------------------------------------------------------------
(* safeAnimate called with any of the property maps and durations          *)

SafeAnimateCall(properties, option) ==
    /\ submitted < MaxRequests
    /\ LET r == SafeAnimateWith(BuilderNow, properties, option, DefaultEase)
       IN  /\ BuilderBecomes(r.bundle)
           /\ call' = <<r.call>>
    /\ UNCHANGED <<monitorVars, validation, filtering, buttery, player>>

NextTween ==
    \E properties \in TweenProperties, option \in Optional(DurationValues) :
        SafeAnimateCall(properties, option)

SpecTween == Init /\ [][NextTween]_vars

----------------------------------------------------------------------------
(* batchAnimate called with lists of any of these lengths, between single  *)
(* requests and tween completions                                          *)

BatchCallLengths == {0, 3, 4, 5, 9}

BatchAnimateCall(n) ==
    /\ submitted + n <= MaxRequests
    /\ BuilderBecomes(BatchAnimate(BuilderNow, n))
    /\ call' = <<[batch |-> n, submittedBefore |-> submitted]>>
    /\ UNCHANGED <<monitorVars, validation, filtering, buttery, player>>

NextBatch ==
    \/ SafeAnimateRequest
    \/ \E n \in BatchCallLengths : BatchAnimateCall(n)
    \/ \E i \in DOMAIN timeline : TweenCompletes(i)

SpecBatch == Init /\ [][NextBatch]_vars

----------------------------------------------------------------------------
(* The lightweight monitor over some sampling windows, an engine being     *)
(* registered at some moment                                               *)

ButteryWindow(dt) ==
    /\ buttery.windows < MaxButteryWindows
    /\ buttery.mon.monitoring
    /\ buttery' = ButteryWindowFrames(buttery, dt)
    /\ UNCHANGED <<monitorVars, builderVars, validation, filtering, call, player>>

ButteryRegisterEngine(eng) ==
    /\ buttery.eng.kind = "none"
    /\ buttery' = [buttery EXCEPT !.eng = eng, !.ev = <<>>]
    /\ UNCHANGED <<monitorVars, builderVars, validation, filtering, call, player>>

NextButtery ==
    \/ \E dt \in ButteryDeltas : ButteryWindow(dt)
    \/ \E eng \in ButteryEngines : ButteryRegisterEngine(eng)

SpecButtery == Init /\ [][NextButtery]_vars

----------------------------------------------------------------------------
(* An engine of any variant played, reset and run to completion            *)

InitPlay ==
    /\ InitRest
    /\ filtering = NewFiltering(<<>>)
    /\ call = <<>>
    /\ buttery = NewButtery
    /\ player \in {NewPlayer(kind) : kind \in EngineKinds}

PlayerBecomes(e, op) ==
    /\ player' = [e EXCEPT !.last = op]
    /\ UNCHANGED <<monitorVars, builderVars, validation, filtering, call, buttery>>

PlayCall ==
    /\ Len(player.timelines) < MaxPlays
    /\ PlayerBecomes(Play(player), [op |-> "play"])

PlaySelectedYearsCall(years) ==
    /\ Len(player.timelines) < MaxPlays
    /\ PlayerBecomes(PlaySelectedYears(player, years),
                     [op |-> "playSelectedYears", years |-> years])

TimelineAdvances(i) ==
    /\ player.timelines[i].state = "live"
    /\ PlayerBecomes(AdvanceTimeline(player, i), [op |-> "timeline"])

TimerFires ==
    /\ player.timers # <<>>
    /\ PlayerBecomes(FireTimer(player), [op |-> "timer"])

ResetCall ==
    /\ player' = [ResetEngine(player) EXCEPT !.last = [op |-> "reset"]]
    /\ UNCHANGED <<monitorVars, builderVars, validation, filtering, call, buttery>>

NextPlay ==
    \/ PlayCall
    \/ \E years \in YearLists : PlaySelectedYearsCall(years)
    \/ \E i \in DOMAIN player.timelines : TimelineAdvances(i)
    \/ TimerFires
    \/ ResetCall

SpecPlay == InitPlay /\ [][NextPlay]_vars

----------------------------------------------------------------------------
(* Properties.  What they read of the last step is in events.              *)

Closed == \E i \in DOMAIN events : events[i].op = "window"
Happened(op) == \E i \in DOMAIN events : events[i].op = op
Classified == {events[i] : i \in {j \in DOMAIN events : events[j].op = "classify"}}
TierChanged == \E c \in Classified : c.prev # c.level
Calls == SelectSeq(events, LAMBDA e : e.op = "call")

\* the tiers and bundles as the specification states them
SpecTier(fps) ==
    CASE fps < 45 -> "low"
      [] fps >= 45 /\ fps < 55 -> "medium"
      [] fps >= 55 -> "high"

SpecBundle(tier) ==
    CASE tier = "high" -> [maxSegments |-> 4, maxJiggle |-> 200, maxVariation |-> 30,
                           allowSquash |-> TRUE, allowSecondaryAction |-> TRUE]
      [] tier = "medium" -> [maxSegments |-> 3, maxJiggle |-> 100, maxVariation |-> 20,
                             allowSquash |-> TRUE, allowSecondaryAction |-> TRUE]
      [] tier = "low" -> [maxSegments |-> 2, maxJiggle |-> 0, maxVariation |-> 10,
                          allowSquash |-> FALSE, allowSecondaryAction |-> FALSE]

Field(params, group, field) == Has(params, group) /\ Has(params[group], field)

\* the four values enforcement writes on Low
Clamped(params) ==
    /\ Field(params, "timing", "maxSegments") /\ params.timing.maxSegments = 2
    /\ Field(params, "secondaryAction", "jiggleIntensity")
    /\ params.secondaryAction.jiggleIntensity = 0
    /\ Field(params, "timing", "organicVariation") /\ params.timing.organicVariation = 10
    /\ Field(params, "squashAndStretch", "enabled") /\ ~params.squashAndStretch.enabled

EngineClamped == engine.kind # "none" /\ Clamped(engine.animationParams)

\* no parameter that is present exceeds the bundle
WithinBundle(params, bundle) ==
    /\ Field(params, "timing", "maxSegments")
           => params.timing.maxSegments <= bundle.maxSegments
    /\ Field(params, "secondaryAction", "jiggleIntensity")
           => params.secondaryAction.jiggleIntensity <= bundle.maxJiggle
    /\ Field(params, "timing", "organicVariation")
           => params.timing.organicVariation <= bundle.maxVariation
    /\ Field(params, "squashAndStretch", "enabled")
           => (params.squashAndStretch.enabled => bundle.allowSquash)

\* C1: the tier is a function of the current window's fps sample alone
\* (Low below 45, Medium from 45 to below 55, High from 55), whatever the
\* previous tier was: the monitor's tier always is the tier of its fps, and
\* every classification yields the tier of the sample it classified.
C1_TierIsFunctionOfFps ==
    /\ monitor.performanceLevel = SpecTier(monitor.fps)
    /\ \A c \in Classified : c.fps = monitor.fps /\ c.level = SpecTier(c.fps)

\* a single sample took the monitor from Low straight to High
C1_Witness == \E c \in Classified : c.prev = "low" /\ c.level = "high"

\* C2: starting from High, enforceConstraints is invoked in exactly the
\* windows whose tier differs from the previous window's tier, and the
\* samples 58,58,58,44,44,30,52,58 give the tiers H,H,H,L,L,L,M,H with
\* enforcement in the fourth, seventh and eighth window only.
C2_EnforcedExactlyOnTierChange ==
    /\ \A i \in DOMAIN feedLog :
          feedLog[i].enforced <=>
              feedLog[i].tier # (IF i = 1 THEN "high" ELSE feedLog[i - 1].tier)
    /\ [i \in DOMAIN feedLog |-> feedLog[i].fps] = Scenario
          => /\ [i \in DOMAIN feedLog |-> feedLog[i].tier]
                   = <<"high", "high", "high", "low", "low", "low", "medium", "high">>
             /\ {i \in DOMAIN feedLog : feedLog[i].enforced} = {4, 7, 8}

\* the whole scenario has been fed
C2_Witness == [i \in DOMAIN feedLog |-> feedLog[i].fps] = Scenario

\* C3: every window close calls every registered subscriber exactly once,
\* in registration order, with the window's fps, its tier and the tier's
\* bundle, whether or not the tier changed.
C3_EveryWindowNotifiesAll ==
    Closed =>
        /\ Len(Calls) = Len(monitor.callbacks)
        /\ \A k \in DOMAIN Calls :
              /\ Calls[k].index = k
              /\ Calls[k].fps = monitor.fps
              /\ Calls[k].level = monitor.performanceLevel
              /\ Calls[k].bundle = SpecBundle(monitor.performanceLevel)

\* C4: in a window whose tier changed, enforcement has completed before any
\* subscriber is called, and on a change to Low with an engine registered
\* the subscriber sees the clamped parameters.
C4_EnforcedBeforeNotified ==
    \A j \in DOMAIN events :
        (events[j].op = "call" /\ TierChanged) =>
            /\ \E i \in 1..(j - 1) : events[i].op = "enforced"
            /\ (events[j].level = "low" /\ events[j].seen.kind # "none")
                   => Clamped(events[j].seen.animationParams)

\* a subscriber was called in the window that changed the tier to Low while
\* a full engine was registered
C4_Witness ==
    \E j \in DOMAIN events :
        /\ events[j].op = "call" /\ events[j].level = "low"
        /\ events[j].seen.kind = "full"
        /\ \E c \in Classified : c.prev # "low" /\ c.level = "low"

\* a notification pass that ran to its end: one call per registered
\* subscriber in registration order, each throw caught right after its
\* call, nothing thrown out of the pass, and the tick queued again
NotifiedAll ==
    /\ Len(Calls) = Len(monitor.callbacks)
    /\ \A k \in DOMAIN Calls : Calls[k].index = k
    /\ \A j \in DOMAIN events :
          (events[j].op = "call" /\ monitor.callbacks[events[j].index] = "throws")
              => (j < Len(events) /\ events[j + 1] = [op |-> "caught", index |-> events[j].index])
    /\ \A i, j \in DOMAIN events :
          (i < j /\ events[i].op = "call") => events[j].op # "uncaught"
    /\ pending > 0

IsPrefix(a, b) == Len(a) <= Len(b) /\ \A i \in DOMAIN a : a[i] = b[i]

\* C5: a subscriber that throws is caught on its own: the subscribers
\* registered after it are still called in that window, nothing propagates
\* out of notifyCallbacks, and it stays registered, so it is called again in
\* the next window.
C5_ThrowingSubscriberIsolated ==
    [][ /\ IsPrefix(monitor.callbacks, monitor'.callbacks)
        /\ (Happened("call") \/ Happened("caught"))' => NotifiedAll' ]_vars

\* second window of a monitor whose first subscriber throws: it was called
\* and caught again, and the subscriber after it was called
C5_Witness ==
    /\ Len(monitor.history) = 2
    /\ Len(monitor.callbacks) = 2 /\ monitor.callbacks[1] = "throws"
    /\ \E j \in DOMAIN events :
          /\ events[j] = [op |-> "caught", index |-> 1]
          /\ \E k \in DOMAIN events : k > j /\ events[k].op = "call" /\ events[k].index = 2

\* C6: when the tier changes to Low while an engine is registered, the
\* engine's parameters become 2 segments, jiggle 0, organic variation 0.1 and
\* squash-and-stretch off, and the status bar shows the warning.
C6_LowClampsRegisteredEngine ==
    \A c \in Classified :
        (c.prev # "low" /\ c.level = "low" /\ engine.kind # "none")
            => /\ Clamped(engine.animationParams)
               /\ Happened("warning")
               /\ statusBar = "low-warning"

C9_StoppedTicksHaveNoEffect ==
    [][ (~monitor.monitoring /\ now' # now)
            => /\ monitor' = monitor
               /\ engine' = engine
               /\ statusBar' = statusBar
               /\ events' = <<>> ]_vars

\* stopped, the queued tick has run, and more than a window's time went by
C9_Witness ==
    /\ ~monitor.monitoring
    /\ pending = 0
    /\ now - monitor.lastTime >= WindowMs

\* C10: after stop() then start() the frame counter is zero and the window
\* start time is the time of the restart.
C10_RestartBeginsFreshWindow ==
    [][ (~monitor.monitoring /\ monitor'.monitoring)
            => (monitor'.frameCount = 0 /\ monitor'.lastTime = now') ]_vars

\* C11: the governor never fails fatally: while monitoring is enabled every
\* window close runs to completion (history, classification, enforcement,
\* notification), nothing is thrown out of it and the next frame tick is
\* queued, whichever engine variant is registered.
C11_WindowCloseCompletes ==
    (monitor.monitoring /\ Closed)
        => /\ ~Happened("uncaught")
           /\ Happened("classify")
           /\ (TierChanged => Happened("enforced"))
           /\ Len(Calls) = Len(monitor.callbacks)
           /\ pending > 0

Running == {i \in DOMAIN timeline : timeline[i].state = "running"}
Completed == {i \in DOMAIN timeline : timeline[i].state = "completed"}
Killed == {i \in DOMAIN timeline : timeline[i].state = "killed"}
Scheduled == {timeline[i].request : i \in DOMAIN timeline}
FurtherScheduled == {r \in Scheduled : r > 9}

\* C12: animationCount never exceeds MAX_CONCURRENT_ANIMATIONS (8); a
\* request that arrives with the count at the cap is dropped, not queued:
\* it changes nothing then, and a tween is only ever scheduled for a
\* request in the step that makes it.
C12_CapHoldsAndDroppedNotQueued ==
    [][ /\ builder'.animationCount <= 8
        /\ \A i \in DOMAIN timeline' :
              i > Len(timeline) => timeline'[i].request > submitted
        /\ (builder.animationCount >= 8 /\ submitted' > submitted)
              => (timeline' = timeline /\ builder' = builder) ]_vars

\* a request was dropped and a slot has been freed since
C12_Witness ==
    /\ \E r \in 1..submitted : r \notin Scheduled
    /\ Completed # {}
    /\ builder.animationCount < 8

\* C13: nine requests before any completion leave eight tweens scheduled
\* and animationCount 8, the ninth dropped without changing the builder; a
\* completion lowers animationCount by exactly one, so that after one
\* completion exactly one further request is accepted.
C13_CapFreesExactlyOneSlot ==
    [][ /\ (submitted = 9 /\ Completed = {} /\ Killed = {})'
              => (Scheduled = 1..8 /\ builder.animationCount = 8)'
        /\ (builder.animationCount = 8 /\ submitted' = submitted + 1)
              => (timeline' = timeline /\ builder' = builder)
        /\ (\E i \in Running : timeline'[i].state = "completed")
              => builder'.animationCount = builder.animationCount - 1
        /\ ((9 \notin Scheduled /\ submitted >= 9 /\ Killed = {}
               /\ Cardinality(Completed) = 1)
              => (/\ Cardinality(FurtherScheduled) <= 1
                  /\ builder.animationCount = 7 + Cardinality(FurtherScheduled)))' ]_vars

\* the ninth request was dropped, one tween completed, the tenth request
\* was accepted and the eleventh dropped
C13_Witness ==
    /\ submitted = 11 /\ Scheduled = (1..8) \cup {10}
    /\ Cardinality(Completed) = 1 /\ Killed = {}

\* C14: every accepted animation releases its slot exactly once, also when
\* it is killed: animationCount always is the number of tweens scheduled
\* and neither completed nor killed.
C14_CountIsRunningTweens ==
    builder.animationCount = Cardinality(Running)

Retained == {monitor.history[i] : i \in DOMAIN monitor.history}

\* the metrics a getMetrics call of the last step returned
Metrics == {events[i].result : i \in {j \in DOMAIN events : events[j].op = "metrics"}}

\* C15: immediately after every window close every sample retained in
\* history has a timestamp strictly newer than the current time less
\* 60000 ms, and getMetrics counts the retained samples only.
C15_HistoryHoldsLastMinute ==
    /\ Closed => \A entry \in Retained : entry.timestamp > now - 60000
    /\ \A m \in Metrics : m.dataPoints = Len(monitor.history)

\* a window close evicted a sample
C15_Witness ==
    /\ Closed
    /\ \E i \in DOMAIN events : events[i].op = "history" /\ events[i].evicted > 0

\* C16: getMetrics is computed from history and changes no state:
\* dataPoints is the number of retained samples, minFPS and maxFPS their
\* least and greatest fps, averageFPS their mean rounded to the nearest
\* integer (so min <= average <= max), currentFPS the fps of the latest
\* window; with an empty history average, min and max are the current fps.
C16_MetricsFromHistory ==
    [][ Happened("metrics")' =>
          /\ monitor' = monitor /\ engine' = engine /\ statusBar' = statusBar
          /\ \A m \in Metrics' :
                LET n == Len(monitor.history)
                    total == SumFps(monitor.history, n)
                IN  /\ m.dataPoints = n
                    /\ m.currentFPS = monitor.fps
                    /\ n > 0 => /\ m.currentFPS = monitor.history[n].fps
                                /\ \A entry \in Retained : m.minFPS <= entry.fps
                                /\ \E entry \in Retained : m.minFPS = entry.fps
                                /\ \A entry \in Retained : m.maxFPS >= entry.fps
                                /\ \E entry \in Retained : m.maxFPS = entry.fps
                                /\ 2 * m.averageFPS * n - n <= 2 * total
                                /\ 2 * total < 2 * m.averageFPS * n + n
                                /\ m.minFPS <= m.averageFPS
                                /\ m.averageFPS <= m.maxFPS
                    /\ n = 0 => /\ m.averageFPS = monitor.fps
                                /\ m.minFPS = monitor.fps
                                /\ m.maxFPS = monitor.fps ]_vars

\* metrics over two samples whose mean is not an integer
C16_Witness ==
    /\ Metrics # {}
    /\ Len(monitor.history) = 2
    /\ (monitor.history[1].fps + monitor.history[2].fps) % 2 = 1

\* a field the caller supplied
Supplied(group, field) == Field(validation.request, group, field)

\* C17: whatever is requested, validateParameters returns, for each group
\* present in the request, maxSegments <= 4, organicVariation <= 0.5,
\* jiggleIntensity <= 3, maxJiggles <= 5, squashAmount >= 0.7 and
\* stretchAmount <= 1.3; every call returns.
C17_ValidatedWithinLimits ==
    \A i \in DOMAIN validation.results :
        LET r == validation.results[i] IN
        /\ DOMAIN r = DOMAIN validation.request
        /\ Has(validation.request, "timing")
              => /\ Field(r, "timing", "maxSegments") /\ r.timing.maxSegments <= 4
                 /\ Field(r, "timing", "organicVariation")
                 /\ r.timing.organicVariation <= 50
        /\ Has(validation.request, "secondaryAction")
              => /\ Field(r, "secondaryAction", "jiggleIntensity")
                 /\ r.secondaryAction.jiggleIntensity <= 300
                 /\ Field(r, "secondaryAction", "maxJiggles")
                 /\ r.secondaryAction.maxJiggles <= 5
        /\ Has(validation.request, "squashAndStretch")
              => /\ Field(r, "squashAndStretch", "squashAmount")
                 /\ r.squashAndStretch.squashAmount >= 70
                 /\ Field(r, "squashAndStretch", "stretchAmount")
                 /\ r.squashAndStretch.stretchAmount <= 130

\* a request with every field out of range has been validated
C17_Witness ==
    /\ validation.results # <<>>
    /\ Supplied("timing", "maxSegments") /\ validation.request.timing.maxSegments = 10
    /\ Supplied("timing", "organicVariation")
    /\ validation.request.timing.organicVariation = 80
    /\ Supplied("secondaryAction", "jiggleIntensity")
    /\ validation.request.secondaryAction.jiggleIntensity = 500
    /\ Supplied("secondaryAction", "maxJiggles")
    /\ validation.request.secondaryAction.maxJiggles = 8
    /\ Supplied("squashAndStretch", "squashAmount")
    /\ validation.request.squashAndStretch.squashAmount = 50
    /\ Supplied("squashAndStretch", "stretchAmount")
    /\ validation.request.squashAndStretch.stretchAmount = 200

\* C18: validateParameters is idempotent: applied to what it returned, it
\* returns the same values field by field.
C18_ValidateIdempotent ==
    \A i \in DOMAIN validation.results :
        i > 1 => validation.results[i] = validation.results[i - 1]

\* validated twice, the first call having changed the request
C18_Witness ==
    /\ Len(validation.results) = 2
    /\ validation.results[1] # validation.request

\* C19: a default is applied to a missing field only: every supplied value
\* v, 0 included, comes back as min(v, ceiling), max(v, floor) for
\* squashAmount.
C19_SuppliedValueOnlyClamped ==
    \A i \in DOMAIN validation.results :
        LET r == validation.results[i]
            q == validation.request IN
        /\ Supplied("timing", "maxSegments")
              => r.timing.maxSegments = Min(q.timing.maxSegments, 4)
        /\ Supplied("timing", "organicVariation")
              => r.timing.organicVariation = Min(q.timing.organicVariation, 50)
        /\ Supplied("secondaryAction", "jiggleIntensity")
              => r.secondaryAction.jiggleIntensity
                     = Min(q.secondaryAction.jiggleIntensity, 300)
        /\ Supplied("secondaryAction", "maxJiggles")
              => r.secondaryAction.maxJiggles = Min(q.secondaryAction.maxJiggles, 5)
        /\ Supplied("squashAndStretch", "squashAmount")
              => r.squashAndStretch.squashAmount
                     = Max(q.squashAndStretch.squashAmount, 70)
        /\ Supplied("squashAndStretch", "stretchAmount")
              => r.squashAndStretch.stretchAmount
                     = Min(q.squashAndStretch.stretchAmount, 130)

\* C20: validateParameters is pure: after the call the caller's object
\* holds the values it held before.
C20_ValidateLeavesArgument ==
    validation.results # <<>> => validation.params = validation.request

\* C21: whatever the property map, filterGPUProperties returns without an
\* exception, also when it blocks a key; the keys of what it returns are
\* keys of the map, each a GPU-only property, one of duration, ease, delay,
\* or 'attr', and each with the value the map gave it.
C21_FilteredIsAllowedSubset ==
    filtering.called =>
        /\ filtering.returned # <<>>
        /\ LET safe == filtering.returned[1]
               properties == filtering.properties
           IN  /\ DOMAIN safe \subseteq DOMAIN properties
               /\ \A key \in DOMAIN safe :
                    /\ \/ key \in {"opacity", "transform", "x", "y", "rotation", "scale",
                                   "scaleX", "scaleY", "rotationX", "rotationY", "rotationZ"}
                       \/ key \in {"duration", "ease", "delay"}
                       \/ key = "attr"
                    /\ safe[key] = properties[key]

\* a map with a blocked key and kept keys went through the filter
C21_Witness ==
    /\ filtering.called
    /\ filtering.warned = {"width", "backgroundColor"}
    /\ filtering.returned # <<>>
    /\ DOMAIN filtering.returned[1] = {"opacity", "duration", "attr"}

\* C24: an 'attr' bag is kept, unchanged, exactly when each of its sub-keys
\* is one of width, height, d, transform, opacity (the empty bag is kept);
\* with any other sub-key the whole entry is dropped.
C24_AttrAllOrNothing ==
    (filtering.called /\ "attr" \in DOMAIN filtering.properties) =>
        LET safe == filtering.returned[1]
            bag == filtering.properties["attr"]
        IN  /\ "attr" \in DOMAIN safe <=>
                   DOMAIN bag \subseteq {"width", "height", "d", "transform", "opacity"}
            /\ "attr" \in DOMAIN safe => safe["attr"] = bag

\* a bag with safe sub-keys and one other sub-key was dropped whole
C24_Witness ==
    /\ filtering.called
    /\ "attr" \in DOMAIN filtering.properties
    /\ DOMAIN filtering.properties["attr"] = {"width", "opacity", "fill"}
    /\ "attr" \notin DOMAIN filtering.returned[1]
    /\ "attr" \in filtering.warned

\* C22: a tween scheduled by safeAnimate has the larger of the duration
\* argument (1 s when left out) and 0.05 s as its duration, whatever
\* 'duration' the property map carries; at the cap the call stops before the
\* floor is taken and schedules nothing; the count goes up before the tween
\* is put on the timeline.
C22_TweenDurationIsFloored ==
    call # <<>> =>
        LET c == call[1]
            requested == IF c.duration = <<>> THEN 100 ELSE c.duration[1]
        IN  IF c.countBefore >= 8
            THEN /\ c.tween = <<>>
                 /\ \A i \in DOMAIN c.steps : c.steps[i] \notin {"floor", "count", "to"}
            ELSE /\ c.tween # <<>>
                 /\ c.tween[1]["duration"] = IF requested >= 5 THEN requested ELSE 5
                 /\ \E i, j \in DOMAIN c.steps :
                        /\ c.steps[i] = "count" /\ c.steps[j] = "to" /\ i < j
                 /\ \E i, j \in DOMAIN c.steps :
                        /\ c.steps[i] = "cap" /\ c.steps[j] = "floor" /\ i < j
                 /\ builder.animationCount = c.countBefore + 1

\* a tween was scheduled for a map with duration 0.01 and a duration argument
\* of 0.3
C22_Witness ==
    /\ call # <<>>
    /\ call[1].tween # <<>>
    /\ "duration" \in DOMAIN call[1].properties
    /\ call[1].properties["duration"] = 1
    /\ call[1].duration = <<30>>
    /\ call[1].tween[1]["duration"] = 30

\* safeAnimate called once for each of n requests, in order
RECURSIVE OneByOne(_, _)
OneByOne(b, n) == IF n = 0 THEN b ELSE OneByOne(SafeAnimate(b), n - 1)

\* C23: whatever the length of the list and the count before, batchAnimate
\* leaves the builder as n single safeAnimate calls in list order would:
\* the same requests scheduled, the same dropped, the same count.
C23_BatchIsOneByOne ==
    [][call' # call =>
          BuilderNow' = OneByOne(BuilderNow, call'[1].batch)]_vars

\* a list of five requests met the cap in its second chunk: three were
\* scheduled, two dropped
C23_Witness ==
    /\ call = <<[batch |-> 5, submittedBefore |-> submitted - 5]>>
    /\ builder.animationCount = MaxConcurrentAnimations
    /\ Len(timeline) = submitted - 2
    /\ timeline[Len(timeline)].request = submitted - 2

\* C26: whatever the order of start(), stop() and frames, at most one tick
\* callback of the monitor is queued at any time.
C26_AtMostOneTickPending == pending <= 1

\* C27: every sample in history carries the tier of its own fps: low below
\* 45, medium from 45 to below 55, high from 55.
C27_SampleCarriesOwnTier ==
    \A entry \in Retained : entry.performanceLevel = SpecTier(entry.fps)

\* C28: validateParameters leaves the values the Low-tier enforcement wrote
\* (maxSegments 2, jiggleIntensity 0, organicVariation 0.1) as they are, and
\* never returns a field it clamps from above with more than was supplied.
C28_ValidationKeepsEnforced ==
    \A i \in DOMAIN validation.results :
        LET r == validation.results[i]
            q == validation.request IN
        /\ Clamped(q) => Clamped(r)
        /\ Supplied("timing", "maxSegments")
              => r.timing.maxSegments <= q.timing.maxSegments
        /\ Supplied("timing", "organicVariation")
              => r.timing.organicVariation <= q.timing.organicVariation
        /\ Supplied("secondaryAction", "jiggleIntensity")
              => r.secondaryAction.jiggleIntensity <= q.secondaryAction.jiggleIntensity
        /\ Supplied("secondaryAction", "maxJiggles")
              => r.secondaryAction.maxJiggles <= q.secondaryAction.maxJiggles
        /\ Supplied("squashAndStretch", "stretchAmount")
              => r.squashAndStretch.stretchAmount <= q.squashAndStretch.stretchAmount

ButteryAdapted == \E i \in DOMAIN buttery.ev : buttery.ev[i].op = "adapt"

\* the parameter holds a number, and at most the cap
NumberAtMost(field, cap) ==
    /\ Has(buttery.eng.animationParams, field)
    /\ field \notin buttery.nan
    /\ buttery.eng.animationParams[field] <= cap

\* the parameter holds the same number before and after the step
SameNumber(field) ==
    (Has(buttery.eng.animationParams, field) /\ field \notin buttery.nan)
        => /\ Has(buttery.eng.animationParams', field)
           /\ field \notin buttery.nan'
           /\ buttery.eng.animationParams'[field] = buttery.eng.animationParams[field]

\* the parameter, a number before the step, is the lesser of it and cap after
LesserOf(field, cap) ==
    (Has(buttery.eng.animationParams, field) /\ field \notin buttery.nan)
        => /\ Has(buttery.eng.animationParams', field)
           /\ field \notin buttery.nan'
           /\ buttery.eng.animationParams'[field]
                  = IF buttery.eng.animationParams[field] <= cap
                    THEN buttery.eng.animationParams[field] ELSE cap

C29_ResetStaysCleared ==
    (player.kind = "organic" /\ player.afterReset) =>
        /\ player.currentDataSlice = 0
        /\ player.path = "empty"

LiveTimelines == {i \in DOMAIN player.timelines : player.timelines[i].state = "live"}

\* C30: for each engine variant, a play call made while isPlaying changes
\* nothing, playSelectedYears([]) leaves isPlaying false, at most one main
\* timeline is live, and isPlaying holds exactly when one is.
C30_PlayingIsOneLiveTimeline ==
    [][/\ (player.isPlaying /\ player'.last.op \in {"play", "playSelectedYears"})
            => /\ player'.timelines = player.timelines
               /\ player'.isPlaying
       /\ (~player.isPlaying /\ player'.last = [op |-> "playSelectedYears", years |-> <<>>])
            => ~player'.isPlaying
       /\ (Cardinality(LiveTimelines) <= 1)'
       /\ (player.isPlaying <=> LiveTimelines # {})']_vars

====
